---- MODULE Spec2Model ----
(***************************************************************************)
(* Model of the accounting reconciliation script src/app.py: one Streamlit *)
(* script run per submission of the form (company, month, TB PDF).  The    *)
(* script downloads or reuses the month's reference sheet, resolves the    *)
(* staff name, extracts the PDF text, parses the trial-balance lines,      *)
(* reconciles them against the fixed reference table, formats the result   *)
(* and exports it to a workbook.                                           *)
(*                                                                         *)
(* Text is modelled as sequences of one-character strings, Python floats   *)
(* as IEEE-754 binary64 values m / 2^k with an exact 53-bit significand m  *)
(* (kept as a multi-limb natural number, since 2^53 exceeds the machine    *)
(* integers of the model checker).                                         *)
(***************************************************************************)
EXTENDS Integers, Sequences, FiniteSets, TLC

(***************************************************************************)
(* Multi-limb natural numbers: little-endian sequences of 15-bit limbs,     *)
(* without leading (most significant) zero limbs; zero is <<>>.            *)
(***************************************************************************)
Base == 2 ^ 15

RECURSIVE BigNorm(_)
BigNorm(a) ==
    IF a = <<>> THEN <<>>
    ELSE IF a[Len(a)] = 0 THEN BigNorm(SubSeq(a, 1, Len(a) - 1))
    ELSE a

RECURSIVE BigOfNat(_)
BigOfNat(n) ==
    IF n = 0 THEN <<>> ELSE <<n % Base>> \o BigOfNat(n \div Base)

\* a * s + carry, for 0 <= s <= Base and 0 <= carry <= Base
RECURSIVE BigMulAdd(_, _, _)
BigMulAdd(a, s, carry) ==
    IF a = <<>> THEN BigOfNat(carry)
    ELSE LET t == a[1] * s + carry
         IN  <<t % Base>> \o BigMulAdd(Tail(a), s, t \div Base)

BigMulSmall(a, s) == BigNorm(BigMulAdd(a, s, 0))

BigZeros(n) == [i \in 1..n |-> 0]

\* a * 2^k
BigShl(a, k) ==
    IF a = <<>> THEN <<>>
    ELSE BigZeros(k \div 15) \o BigMulSmall(a, 2 ^ (k % 15))

\* quotient and remainder of a by a small divisor 0 < d <= Base
RECURSIVE BigDivStep(_, _, _, _)
BigDivStep(a, d, r, i) ==
    IF i = 0 THEN [q |-> <<>>, r |-> r]
    ELSE LET cur  == r * Base + a[i]
             rest == BigDivStep(a, d, cur % d, i - 1)
         IN  [q |-> Append(rest.q, cur \div d), r |-> rest.r]

BigDivSmall(a, d) ==
    LET qr == BigDivStep(a, d, 0, Len(a))
    IN  [q |-> BigNorm(qr.q), r |-> qr.r]

\* -1, 0, 1 as a < b, a = b, a > b (both normalised)
RECURSIVE BigCmpFrom(_, _, _)
BigCmpFrom(a, b, i) ==
    IF i = 0 THEN 0
    ELSE IF a[i] < b[i] THEN -1
    ELSE IF a[i] > b[i] THEN 1
    ELSE BigCmpFrom(a, b, i - 1)

BigCmp(a, b) ==
    IF Len(a) < Len(b) THEN -1
    ELSE IF Len(a) > Len(b) THEN 1
    ELSE BigCmpFrom(a, b, Len(a))

\* a - b for a >= b
RECURSIVE BigSubBorrow(_, _, _)
BigSubBorrow(a, b, borrow) ==
    IF a = <<>> THEN <<>>
    ELSE LET bi == IF b = <<>> THEN 0 ELSE b[1]
             t  == a[1] - bi - borrow
         IN  IF t < 0
             THEN <<t + Base>> \o BigSubBorrow(Tail(a), IF b = <<>> THEN <<>> ELSE Tail(b), 1)
             ELSE <<t>> \o BigSubBorrow(Tail(a), IF b = <<>> THEN <<>> ELSE Tail(b), 0)

BigSub(a, b) == BigNorm(BigSubBorrow(a, b, 0))

BigAddOne(a) == BigNorm(BigMulAdd(a, 1, 1))

RECURSIVE BitLenInt(_)
BitLenInt(n) == IF n = 0 THEN 0 ELSE 1 + BitLenInt(n \div 2)

BigBitLen(a) ==
    IF a = <<>> THEN 0 ELSE 15 * (Len(a) - 1) + BitLenInt(a[Len(a)])

BigIsOdd(a) == a # <<>> /\ a[1] % 2 = 1

\* round-half-even of a / 2^s, s >= 0
BigShrRound(a, s) ==
    IF s = 0 THEN a
    ELSE LET nl   == s \div 15
             nb   == s % 15
             hi   == IF nl >= Len(a) THEN <<>> ELSE SubSeq(a, nl + 1, Len(a))
             qr   == BigDivSmall(hi, 2 ^ nb)
             low  == IF nl >= Len(a) THEN a ELSE SubSeq(a, 1, nl)
             rem  == BigNorm(low \o BigOfNat(qr.r))
             half == BigShl(<<1>>, s - 1)
             c    == BigCmp(rem, half)
         IN  IF c > 0 \/ (c = 0 /\ BigIsOdd(qr.q)) THEN BigAddOne(qr.q) ELSE qr.q

\* round-half-even of a / d for a small divisor d
BigDivRound(a, d) ==
    LET qr == BigDivSmall(a, d)
    IN  IF 2 * qr.r > d \/ (2 * qr.r = d /\ BigIsOdd(qr.q))
        THEN BigAddOne(qr.q) ELSE qr.q

(***************************************************************************)
(* Python values met by the script: None, float (binary64, with NaN) and   *)
(* str.  A finite float is (-1)^neg * m / 2^k with m odd or zero, so that  *)
(* equal floats are equal records.                                         *)
(***************************************************************************)
None == [t |-> "None"]
NaN == [t |-> "nan"]
Str(s) == [t |-> "str", s |-> s]

RECURSIVE TrailingZeros(_)
\* the number of trailing zero bits of n > 0
TrailingZeros(n) == IF n % 2 = 1 THEN 0 ELSE 1 + TrailingZeros(n \div 2)

RECURSIVE FloatNorm(_, _, _)
FloatNorm(neg, m, k) ==
    IF m = <<>> THEN [t |-> "float", neg |-> neg, m |-> <<>>, k |-> 0]
    ELSE IF m[1] = 0 THEN FloatNorm(neg, Tail(m), k - 15)
    ELSE [t |-> "float", neg |-> neg,
          m |-> BigDivSmall(m, 2 ^ TrailingZeros(m[1])).q,
          k |-> k - TrailingZeros(m[1])]

\* the binary64 nearest to n / 2^k (round-half-even to a 53-bit significand)
FloatRound(neg, n, k) ==
    LET bl == BigBitLen(n)
    IN  IF bl <= 53 THEN FloatNorm(neg, n, k)
        ELSE FloatNorm(neg, BigShrRound(n, bl - 53), k - (bl - 53))

\* the binary64 nearest to n / d, for a small divisor d and 0 < n < 2^59:
\* what float() and a float literal give for a decimal numeral
FloatOfRatio(neg, n, d) ==
    IF n = <<>> THEN FloatNorm(neg, <<>>, 0)
    ELSE LET k0 == 53 + BitLenInt(d) - BigBitLen(n)
             q0 == BigDivSmall(BigShl(n, k0), d).q
             k  == IF BigBitLen(q0) > 53 THEN k0 - 1 ELSE k0
         IN  FloatNorm(neg, BigDivRound(BigShl(n, k), d), k)

IsFloat(x) == x.t = "float"
IsNone(x) == x.t = "None"
IsNaN(x) == x.t = "nan"

FloatGtZero(x) == ~x.neg /\ x.m # <<>>
FloatNeg(x) == [x EXCEPT !.neg = ~x.neg]
FloatAbs(x) == [x EXCEPT !.neg = FALSE]

\* significands of x and y over the common denominator 2^max(x.k, y.k)
AlignK(x, y) == IF x.k >= y.k THEN x.k ELSE y.k
AlignM(x, k) == BigShl(x.m, k - x.k)

\* x - y for x, y >= 0, correctly rounded
FloatSubNonNeg(x, y) ==
    LET k  == AlignK(x, y)
        mx == AlignM(x, k)
        my == AlignM(y, k)
    IN  IF BigCmp(mx, my) >= 0
        THEN FloatRound(FALSE, BigSub(mx, my), k)
        ELSE FloatRound(TRUE, BigSub(my, mx), k)

\* x < y for x, y >= 0
FloatLessNonNeg(x, y) ==
    LET k == AlignK(x, y)
    IN  BigCmp(AlignM(x, k), AlignM(y, k)) < 0

(***************************************************************************)
(* Characters and decimal numerals.                                        *)
(***************************************************************************)
Digits == <<"0", "1", "2", "3", "4", "5", "6", "7", "8", "9">>
IsDigit(c) == c \in {"0", "1", "2", "3", "4", "5", "6", "7", "8", "9"}
DigitVal(c) == (CHOOSE i \in 1..10 : Digits[i] = c) - 1
IsSpace(c) == c \in {" ", "\t"}

RECURSIVE Replace(_, _)
\* str.replace(c, ""): s without the occurrences of the character c
Replace(s, c) ==
    IF s = <<>> THEN <<>>
    ELSE IF s[1] = c THEN Replace(Tail(s), c)
    ELSE <<s[1]>> \o Replace(Tail(s), c)

IndexOf(s, c) == IF \E i \in 1..Len(s) : s[i] = c
                 THEN CHOOSE i \in 1..Len(s) : s[i] = c /\ \A j \in 1..(i - 1) : s[j] # c
                 ELSE 0

RECURSIVE BigOfDigits(_, _)
BigOfDigits(s, acc) ==
    IF s = <<>> THEN acc
    ELSE BigOfDigits(Tail(s), BigNorm(BigMulAdd(acc, 10, DigitVal(s[1]))))

\* float(s) accepts s iff it is a decimal numeral: digits with at most one
\* point and at least one digit
FloatAccepts(s) ==
    /\ \A i \in 1..Len(s) : IsDigit(s[i]) \/ s[i] = "."
    /\ Cardinality({i \in 1..Len(s) : s[i] = "."}) <= 1
    /\ \E i \in 1..Len(s) : IsDigit(s[i])

\* float(s) for an accepted s with at most four fraction digits
PyFloat(s) ==
    LET dot  == IndexOf(s, ".")
        frac == IF dot = 0 THEN 0 ELSE Len(s) - dot
    IN  FloatOfRatio(FALSE, BigOfDigits(Replace(s, "."), <<>>), 10 ^ frac)

RECURSIVE BigDigits(_)
\* the decimal digits of n, most significant first (<<>> for zero)
BigDigits(n) ==
    IF n = <<>> THEN <<>>
    ELSE LET qr == BigDivSmall(n, 10)
         IN  Append(BigDigits(qr.q), Digits[qr.r + 1])

\* the ',' option of the format mini-language on the integer digits
Thousands(d) ==
    LET Piece(i) == IF i > 1 /\ (Len(d) - i + 1) % 3 = 0 THEN <<",", d[i]>> ELSE <<d[i]>>
        RECURSIVE Join(_)
        Join(i) == IF i > Len(d) THEN <<>> ELSE Piece(i) \o Join(i + 1)
    IN  Join(1)

\* f"{x:,.2f}" for a finite float x: the hundredths nearest to |x|
\* (round-half-even on the exact binary value), grouped and signed
FormatFixed2(x) ==
    LET n    == IF x.k >= 0 THEN BigShrRound(BigMulSmall(x.m, 100), x.k)
                ELSE BigShl(BigMulSmall(x.m, 100), 0 - x.k)
        raw  == BigDigits(n)
        ds   == IF Len(raw) >= 3 THEN raw ELSE [i \in 1..(3 - Len(raw)) |-> "0"] \o raw
        ip   == SubSeq(ds, 1, Len(ds) - 2)
        fp   == SubSeq(ds, Len(ds) - 1, Len(ds))
    IN  (IF x.neg THEN <<"-">> ELSE <<>>) \o Thousands(ip) \o <<".">> \o fp

(***************************************************************************)
(* The ledger-line pattern of the parser, matched the way re.match does:   *)
(*   (\d{4}-\d{2}) \s+ .+? ([\d,]+\.\d{2}) (\s+ ([\d,]+\.\d{2})) x 5       *)
(* anchored at the start of the line and not at its end.                   *)
(***************************************************************************)
NoMatch == <<>>

\* group 1, (\d{4}-\d{2}), on the first seven characters
MatchCode(line) ==
    /\ Len(line) >= 7
    /\ \A i \in {1, 2, 3, 4, 6, 7} : IsDigit(line[i])
    /\ line[5] = "-"

IsNumChar(c) == IsDigit(c) \/ c = ","

RECURSIVE SkipSpaces(_, _)
\* the first index >= p of line that holds no whitespace (greedy \s*)
SkipSpaces(line, p) ==
    IF p <= Len(line) /\ IsSpace(line[p]) THEN SkipSpaces(line, p + 1) ELSE p

RECURSIVE SkipNumChars(_, _)
\* the first index >= p of line that holds neither digit nor comma (greedy [\d,]*)
SkipNumChars(line, p) ==
    IF p <= Len(line) /\ IsNumChar(line[p]) THEN SkipNumChars(line, p + 1) ELSE p

\* ([\d,]+\.\d{2}) at index p: the index after the field, or 0 when it fails.
\* The point is no [\d,] character, so the greedy run cannot give back.
NumFieldEnd(line, p) ==
    LET q == SkipNumChars(line, p)
    IN  IF /\ q > p
           /\ q + 2 <= Len(line)
           /\ line[q] = "."
           /\ IsDigit(line[q + 1])
           /\ IsDigit(line[q + 2])
        THEN q + 3 ELSE 0

\* a field put before the fields matched after it
ConsField(field, rest) == IF rest = NoMatch THEN NoMatch ELSE <<field>> \o rest

RECURSIVE MatchFieldsAt(_, _, _, _)
\* n numeric fields, the first one from index p up to index e - 1 (e = 0: no
\* field at p), with \s+ between them: their texts, or NoMatch.  Each field
\* starts with a [\d,] character, so \s+ takes every whitespace character
\* before it.
MatchFieldsAt(line, p, e, n) ==
    IF e = 0 THEN NoMatch
    ELSE IF n = 1 THEN <<SubSeq(line, p, e - 1)>>
    ELSE IF SkipSpaces(line, e) = e THEN NoMatch
    ELSE ConsField(SubSeq(line, p, e - 1),
                   MatchFieldsAt(line, SkipSpaces(line, e),
                                 NumFieldEnd(line, SkipSpaces(line, e)), n - 1))

MatchFields(line, p, n) == MatchFieldsAt(line, p, NumFieldEnd(line, p), n)

RECURSIVE FirstStart(_, _)
\* the least index >= p where six fields match, or 0
FirstStart(line, p) ==
    IF p > Len(line) THEN 0
    ELSE IF MatchFields(line, p, 6) # NoMatch THEN p
    ELSE FirstStart(line, p + 1)

\* where the first numeric field starts, after w whitespace characters
\* following the code: \s+ is greedy and .+? is lazy, so it is the least index
\* from 9 + w on where six fields match; failing all of those, \s+ gives one
\* character back to .+? and the fields may start at index 8 + w.
FieldsStart(line, w, late) ==
    IF w = 0 THEN 0
    ELSE IF late # 0 THEN late
    ELSE IF w >= 2 /\ MatchFields(line, 8 + w, 6) # NoMatch THEN 8 + w
    ELSE 0

GroupsFrom(line, start) ==
    IF start = 0 THEN NoMatch
    ELSE <<SubSeq(line, 1, 7)>> \o MatchFields(line, start, 6)

\* pattern.match(line): the groups <<1, ..., 7>>, or NoMatch
PatternMatch(line) ==
    IF ~MatchCode(line) THEN NoMatch
    ELSE GroupsFrom(line, FieldsStart(line, SkipSpaces(line, 8) - 8,
                                      FirstStart(line, SkipSpaces(line, 8) + 1)))

\* a variant of LineAmount that takes the debit side when it is not negative
LineAmountNonNegative(balance_debit, balance_credit) ==
    IF ~balance_debit.neg THEN balance_debit ELSE FloatNeg(balance_credit)

\* the amount of a matched line: balance debit when positive, otherwise the
\* negated balance credit
LineAmount(balance_debit, balance_credit) ==
    IF FloatGtZero(balance_debit) THEN balance_debit ELSE FloatNeg(balance_credit)

\* the body of the extraction loop for one line: the records it appends and
\* the warnings it raises (float() raising ValueError)
ParseLine(line) ==
    LET match == PatternMatch(line)
    IN  IF match = NoMatch THEN [records |-> <<>>, warnings |-> 0]
        ELSE LET debit_text  == Replace(match[6], ",")
                 credit_text == Replace(match[7], ",")
             IN  IF FloatAccepts(debit_text) /\ FloatAccepts(credit_text)
                 THEN [records  |-> <<[Code   |-> match[1],
                                       Amount |-> LineAmount(PyFloat(debit_text),
                                                             PyFloat(credit_text))]>>,
                       warnings |-> 0]
                 ELSE [records |-> <<>>, warnings |-> 1]

RECURSIVE ExtractTB(_)
\* the extraction loop over text.splitlines()
ExtractTB(lines) ==
    IF lines = <<>> THEN [records |-> <<>>, warnings |-> 0]
    ELSE LET head == ParseLine(lines[1])
             rest == ExtractTB(Tail(lines))
         IN  [records  |-> head.records \o rest.records,
              warnings |-> head.warnings + rest.warnings]

(***************************************************************************)
(* Letter case, for the case-insensitive company lookup.                   *)
(***************************************************************************)
LowerLetters == <<"a", "b", "c", "d", "e", "f", "g", "h", "i", "j", "k", "l", "m",
                  "n", "o", "p", "q", "r", "s", "t", "u", "v", "w", "x", "y", "z">>
UpperLetters == <<"A", "B", "C", "D", "E", "F", "G", "H", "I", "J", "K", "L", "M",
                  "N", "O", "P", "Q", "R", "S", "T", "U", "V", "W", "X", "Y", "Z">>

UpperChar(c) == IF \E i \in 1..26 : LowerLetters[i] = c
                THEN UpperLetters[CHOOSE i \in 1..26 : LowerLetters[i] = c]
                ELSE c
LowerChar(c) == IF \E i \in 1..26 : UpperLetters[i] = c
                THEN LowerLetters[CHOOSE i \in 1..26 : UpperLetters[i] = c]
                ELSE c
\* str.upper() and str.lower()
Upper(s) == [i \in 1..Len(s) |-> UpperChar(s[i])]
Lower(s) == [i \in 1..Len(s) |-> LowerChar(s[i])]

(***************************************************************************)
(* The reference table: tb_code_map in declaration order (a Python dict    *)
(* iterates in insertion order), pdf_actual_values and file_map.           *)
(***************************************************************************)
CodeText(a, b) == a \o <<"-">> \o b

tb_code_map ==
    << [name |-> "Bank1 amt", code |-> CodeText(<<"1", "1", "1", "2">>, <<"0", "1">>)],
       [name |-> "Bank2 amt", code |-> CodeText(<<"1", "1", "1", "3">>, <<"0", "1">>)],
       [name |-> "Bank3 amt", code |-> CodeText(<<"1", "1", "1", "4">>, <<"0", "1">>)],
       [name |-> "Bank4 amt", code |-> CodeText(<<"1", "1", "1", "5">>, <<"0", "1">>)],
       [name |-> "Bank5 amt", code |-> CodeText(<<"1", "1", "1", "6">>, <<"0", "1">>)],
       [name |-> "Bank6 amt", code |-> CodeText(<<"1", "1", "1", "7">>, <<"0", "1">>)],
       [name |-> "Bank7 amt", code |-> CodeText(<<"1", "1", "1", "8">>, <<"0", "1">>)],
       [name |-> "Bank8 amt", code |-> CodeText(<<"1", "1", "1", "9">>, <<"0", "1">>)],
       [name |-> "PND1 amt",  code |-> CodeText(<<"2", "1", "3", "2">>, <<"0", "1">>)],
       [name |-> "PND3 amt",  code |-> CodeText(<<"2", "1", "3", "2">>, <<"0", "2">>)],
       [name |-> "PND53 amt", code |-> CodeText(<<"2", "1", "3", "2">>, <<"0", "2">>)],
       [name |-> "PP30 amt",  code |-> CodeText(<<"2", "1", "3", "7">>, <<"0", "0">>)],
       [name |-> "SSO amt",   code |-> CodeText(<<"2", "1", "3", "1">>, <<"0", "4">>)] >>

\* a float literal with two fraction digits, given in hundredths
FloatLiteral(hundredths) == FloatOfRatio(FALSE, BigOfNat(hundredths), 100)

\* pdf_actual_values.get(name)
pdf_actual_values(name) ==
    CASE name = "Bank1 amt" -> FloatLiteral(533152094)
      [] name = "PND1 amt"  -> FloatLiteral(100000)
      [] name = "PND3 amt"  -> FloatLiteral(16500)
      [] name = "PND53 amt" -> FloatLiteral(54000)
      [] name = "PP30 amt"  -> FloatLiteral(4414507)
      [] OTHER              -> None

\* file_map.get(name, ""): the pieces of the f-string
file_map(name, co, mo) ==
    CASE name \in {"Bank1 amt", "Bank2 amt", "Bank3 amt", "Bank4 amt",
                   "Bank5 amt", "Bank6 amt", "Bank7 amt", "Bank8 amt"}
                            -> <<"bank", name, Lower(co), mo, ".pdf">>
      [] name = "PND1 amt"  -> <<"0.PND1_", mo, ".pdf">>
      [] name = "PND3 amt"  -> <<"1.PND3_", mo, ".pdf">>
      [] name = "PND53 amt" -> <<"2.PND53_", mo, ".pdf">>
      [] name = "PP30 amt"  -> <<"PP30_", mo, ".pdf">>
      [] name = "SSO amt"   -> <<"SSO1-10_", mo, ".pdf">>
      [] OTHER              -> <<>>

(***************************************************************************)
(* The reconciler.                                                         *)
(***************************************************************************)
\* a variant of TbAmt that takes the last record of the code (iloc[-1])
TbAmtLast(df_tb, tb_code) ==
    LET tb_rows == SelectSeq(df_tb, LAMBDA r : r.Code = tb_code)
    IN  IF tb_rows # <<>> THEN tb_rows[Len(tb_rows)].Amount ELSE None

\* tb_rows["Amount"].iloc[0] if not tb_rows.empty else None
TbAmt(df_tb, tb_code) ==
    LET tb_rows == SelectSeq(df_tb, LAMBDA r : r.Code = tb_code)
    IN  IF tb_rows # <<>> THEN tb_rows[1].Amount ELSE None

\* abs(abs(tb_amt) - abs(pdf_amt)) < 1e-2
WithinTolerance(tb_amt, pdf_amt) ==
    FloatLessNonNeg(FloatAbs(FloatSubNonNeg(FloatAbs(tb_amt), FloatAbs(pdf_amt))),
                    FloatLiteral(1))

\* a variant of ResultOf that checks the ledger amount only and takes a
\* missing expected amount for a mismatch
ResultOfLedgerOnly(tb_amt, pdf_amt) ==
    IF ~IsNone(tb_amt)
    THEN IF ~IsNone(pdf_amt) /\ WithinTolerance(tb_amt, pdf_amt)
         THEN "Match> Correct" ELSE "Mismatch Wrong"
    ELSE ""

ResultOf(tb_amt, pdf_amt) ==
    IF ~IsNone(tb_amt) /\ ~IsNone(pdf_amt)
    THEN IF WithinTolerance(tb_amt, pdf_amt) THEN "Match> Correct" ELSE "Mismatch Wrong"
    ELSE ""

ResultRow(entry, df_tb, staff, co, mo) ==
    LET tb_amt  == TbAmt(df_tb, entry.code)
        pdf_amt == pdf_actual_values(entry.name)
    IN  [Name              |-> entry.name,
         source_file       |-> file_map(entry.name, co, mo),
         TB_Code           |-> entry.code,
         TB_amount         |-> tb_amt,
         PDF_actual_amount |-> pdf_amt,
         Results           |-> ResultOf(tb_amt, pdf_amt),
         Staff_name        |-> staff]

\* a variant of BuildResults that joins from the ledger side: only the entries
\* whose code was parsed get a row
BuildResultsJoined(df_tb, staff, co, mo) ==
    LET found == SelectSeq(tb_code_map, LAMBDA e : \E j \in 1..Len(df_tb) : df_tb[j].Code = e.code)
    IN  [i \in 1..Len(found) |-> ResultRow(found[i], df_tb, staff, co, mo)]

\* the loop over tb_code_map.items()
BuildResults(df_tb, staff, co, mo) ==
    [i \in 1..Len(tb_code_map) |-> ResultRow(tb_code_map[i], df_tb, staff, co, mo)]

(***************************************************************************)
(* The result formatter.                                                   *)
(***************************************************************************)
\* a column of floats and None as pd.DataFrame holds it: float64 with NaN
\* for None when some value is a float, object (None kept) when none is
ColumnValue(rows, col, i) ==
    IF IsNone(rows[i][col]) /\ \E j \in 1..Len(rows) : IsFloat(rows[j][col])
    THEN NaN ELSE rows[i][col]

DataFrame(rows) ==
    [i \in 1..Len(rows) |->
        [rows[i] EXCEPT !.TB_amount         = ColumnValue(rows, "TB_amount", i),
                        !.PDF_actual_amount = ColumnValue(rows, "PDF_actual_amount", i)]]

PdNotNull(x) == ~IsNone(x) /\ ~IsNaN(x)

\* a variant of FormatAmount without the null guard: NaN is formatted too
FormatAmountUnguarded(x) ==
    IF IsFloat(x) THEN Str(FormatFixed2(x)) ELSE Str(<<"n", "a", "n">>)

\* lambda x: f"{x:,.2f}" if pd.notnull(x) and not math.isnan(x)
\*                          and not math.isinf(x) else ""
FormatAmount(x) ==
    IF PdNotNull(x) /\ IsFloat(x) THEN Str(FormatFixed2(x)) ELSE Str(<<>>)

FormatResult(df) ==
    [i \in 1..Len(df) |-> [df[i] EXCEPT !.TB_amount = FormatAmount(df[i].TB_amount)]]

(***************************************************************************)
(* The workbook export.  df_result.to_excel has already put the table on   *)
(* the sheet; the loop rewrites every cell with a border format.           *)
(***************************************************************************)
\* the amount cell (col_num == 3) of the data-row loop:
\*   if pd.notnull(val) and not (math.isnan(val) or math.isinf(val)):
\*       worksheet.write(..., float(val.replace(",", "")), amount_format)
\*   else: worksheet.write(..., "", cell_format)
\* math.isnan raises TypeError on a str, and a float has no replace()
AmountCellWrite(val) ==
    IF ~PdNotNull(val) THEN "ok"
    ELSE IF val.t = "str" THEN "TypeError"
    ELSE "AttributeError"

RECURSIVE RowsStyled(_, _)
\* the number of data rows the loop completes from row i on
RowsStyled(df, i) ==
    IF i > Len(df) THEN 0
    ELSE IF AmountCellWrite(df[i].TB_amount) = "ok" THEN 1 + RowsStyled(df, i + 1)
    ELSE 0

(***************************************************************************)
(* Inputs of a run.                                                        *)
(***************************************************************************)
MaxLines == 2

\* the spec's example line: Bank1 at its expected amount:
\*   1112-01 Cash 0.00 0.00 0.00 0.00 5,331,520.94 0.00
LineBank1 ==
    <<"1", "1", "1", "2", "-", "0", "1", " ", "C", "a", "s", "h", " ", "0", ".", "0", "0", " ", "0", ".", "0", "0", " ", "0", ".", "0", "0", " ", "0", ".", "0", "0", " ", "5", ",", "3", "3", "1", ",", "5", "2", "0", ".", "9", "4", " ", "0", ".", "0", "0">>

\* the same line with the * separator:
\*   1112*01 Cash 0.00 0.00 0.00 0.00 5,331,520.94 0.00
LineBank1Star ==
    <<"1", "1", "1", "2", "*", "0", "1", " ", "C", "a", "s", "h", " ", "0", ".", "0", "0", " ", "0", ".", "0", "0", " ", "0", ".", "0", "0", " ", "0", ".", "0", "0", " ", "5", ",", "3", "3", "1", ",", "5", "2", "0", ".", "9", "4", " ", "0", ".", "0", "0">>

\* a credit balance one hundredth above PND1's expected amount:
\*   2132-01 PND1 0.00 0.00 0.00 0.00 0.00 1,000.01
LinePnd1Credit ==
    <<"2", "1", "3", "2", "-", "0", "1", " ", "P", "N", "D", "1", " ", "0", ".", "0", "0", " ", "0", ".", "0", "0", " ", "0", ".", "0", "0", " ", "0", ".", "0", "0", " ", "0", ".", "0", "0", " ", "1", ",", "0", "0", "0", ".", "0", "1">>

\* debit and credit balance both positive, other fields non-zero:
\*   2132-01 PND1 5.00 6.00 7.00 8.00 1,200.00 3.00
LinePnd1Both ==
    <<"2", "1", "3", "2", "-", "0", "1", " ", "P", "N", "D", "1", " ", "5", ".", "0", "0", " ", "6", ".", "0", "0", " ", "7", ".", "0", "0", " ", "8", ".", "0", "0", " ", "1", ",", "2", "0", "0", ".", "0", "0", " ", "3", ".", "0", "0">>

\* the code PND3 and PND53 share, at PND3's expected amount:
\*   2132-02 WHT 0.00 0.00 0.00 0.00 0.00 165.00
LinePnd3 ==
    <<"2", "1", "3", "2", "-", "0", "2", " ", "W", "H", "T", " ", "0", ".", "0", "0", " ", "0", ".", "0", "0", " ", "0", ".", "0", "0", " ", "0", ".", "0", "0", " ", "0", ".", "0", "0", " ", "1", "6", "5", ".", "0", "0">>

\* the same code at PND53's expected amount:
\*   2132-02 WHT 1.00 2.00 3.00 4.00 540.00 0.00
LinePnd53 ==
    <<"2", "1", "3", "2", "-", "0", "2", " ", "W", "H", "T", " ", "1", ".", "0", "0", " ", "2", ".", "0", "0", " ", "3", ".", "0", "0", " ", "4", ".", "0", "0", " ", "5", "4", "0", ".", "0", "0", " ", "0", ".", "0", "0">>

\* a code whose expected amount is absent:
\*   1113-01 Bank two 0.00 0.00 0.00 0.00 10.50 0.00
LineBank2 ==
    <<"1", "1", "1", "3", "-", "0", "1", " ", "B", "a", "n", "k", " ", "t", "w", "o", " ", "0", ".", "0", "0", " ", "0", ".", "0", "0", " ", "0", ".", "0", "0", " ", "0", ".", "0", "0", " ", "1", "0", ".", "5", "0", " ", "0", ".", "0", "0">>

\* a code outside the table with both balances zero:
\*   9999-00 Misc 1.00 1.00 0.00 0.00 0.00 0.00
LineZero ==
    <<"9", "9", "9", "9", "-", "0", "0", " ", "M", "i", "s", "c", " ", "1", ".", "0", "0", " ", "1", ".", "0", "0", " ", "0", ".", "0", "0", " ", "0", ".", "0", "0", " ", "0", ".", "0", "0", " ", "0", ".", "0", "0">>

\* a page header:
\*   Trial Balance
LineHeader ==
    <<"T", "r", "i", "a", "l", " ", "B", "a", "l", "a", "n", "c", "e">>

Lines == {LineBank1, LineBank1Star, LinePnd1Credit, LinePnd1Both, LinePnd3, LinePnd53, LineBank2, LineZero, LineHeader}

\* the extracted texts, as text.splitlines() gives them
Texts == UNION {[1..n -> Lines] : n \in 0..MaxLines}

Hercules == <<"H", "e", "r", "c", "u", "l", "e", "s">>
Acme == <<"A", "c", "m", "e">>
Companies == {<<>>, Hercules, Acme}
Months == {"202504", "202505"}

\* what the Google sheet may hold when it is downloaded
SheetStaff == [columns |-> {"eng name", "staff name"},
               rows    |-> <<[eng_name |-> <<"H", "E", "R", "C", "U", "L", "E", "S">>,
                              staff_name |-> "Somchai"],
                             [eng_name |-> <<"h", "e", "r", "c", "u", "l", "e", "s">>,
                              staff_name |-> "Malee"]>>]
SheetOther == [columns |-> {"company", "owner"}, rows |-> <<>>]
Sheets == {SheetStaff, SheetOther}

Absent == [t |-> "absent"]

(***************************************************************************)
(* State.                                                                  *)
(***************************************************************************)
VARIABLES
    pc,               \* the script's position; "idle" between runs
    outcome,          \* how the last run ended, "running" during a run
    company, month,   \* the text inputs
    uploaded_tb,      \* whether a TB PDF is uploaded
    files,            \* the working directory: cached reference sheets by path
    download_called,  \* gdown.download was called in this run
    df_input,         \* the reference sheet read in this run
    staff_name,
    text,             \* the extracted lines
    tb_data,          \* the parsed ledger records
    warnings,         \* the st.warning calls of the extraction loop
    results,          \* the reconciliation rows
    df_result,        \* the presentation rows
    summary_shown,    \* the reconciliation summary is on the page
    styled_rows,      \* data rows the workbook loop has completed
    download_offered  \* the download button is on the page

vars == <<pc, outcome, company, month, uploaded_tb, files, download_called, df_input,
          staff_name, text, tb_data, warnings, results, df_result, summary_shown,
          styled_rows, download_offered>>

\* inputdata_path = f"inputdata_{month}.xlsx"
InputdataPath(mo) == <<"inputdata_", mo, ".xlsx">>

Paths == {InputdataPath(mo) : mo \in Months}

\* a variant of PathExists that never finds the file
PathExistsNever(fs, path) == FALSE

\* os.path.exists(inputdata_path)
PathExists(fs, path) == fs[path] # Absent

Init ==
    /\ pc = "idle"
    /\ outcome = "none"
    /\ company = <<>>
    /\ month = ""
    /\ uploaded_tb = FALSE
    /\ files = [path \in Paths |-> Absent]
    /\ download_called = FALSE
    /\ df_input = None
    /\ staff_name = None
    /\ text = None
    /\ tb_data = <<>>
    /\ warnings = 0
    /\ results = <<>>
    /\ df_result = <<>>
    /\ summary_shown = FALSE
    /\ styled_rows = 0
    /\ download_offered = FALSE

\* st.stop(), or an uncaught exception: the run ends, the page keeps what it shows
EndRun(how) ==
    /\ pc' = "idle"
    /\ outcome' = how

\* A script run starts from the top with the widgets' values; nothing of the
\* previous run survives but the files.  Without all three inputs the script
\* only asks for them.
Submit(co, mo, up) ==
    /\ pc = "idle"
    /\ company' = co
    /\ month' = mo
    /\ uploaded_tb' = up
    /\ download_called' = FALSE
    /\ df_input' = None
    /\ staff_name' = None
    /\ text' = None
    /\ tb_data' = <<>>
    /\ warnings' = 0
    /\ results' = <<>>
    /\ df_result' = <<>>
    /\ summary_shown' = FALSE
    /\ styled_rows' = 0
    /\ download_offered' = FALSE
    /\ IF up /\ co # <<>> /\ mo # ""
       THEN pc' = "check_cache" /\ outcome' = "running"
       ELSE EndRun("no_input")
    /\ UNCHANGED files

\* Download the sheet unless the month's file exists.  gdown.download either
\* writes the file, or raises (caught: st.error, st.stop), or reports the
\* failure and returns without a file.
CheckCache ==
    /\ pc = "check_cache"
    /\ IF ~PathExists(files, InputdataPath(month))
       THEN /\ download_called' = TRUE
            /\ \/ \E sheet \in Sheets :
                    /\ files' = [files EXCEPT ![InputdataPath(month)] = sheet]
                    /\ pc' = "read_sheet"
                    /\ UNCHANGED outcome
               \/ /\ EndRun("stop_download")
                  /\ UNCHANGED files
               \/ /\ pc' = "read_sheet"
                  /\ UNCHANGED <<files, outcome>>
       ELSE /\ pc' = "read_sheet"
            /\ UNCHANGED <<files, outcome, download_called>>
    /\ UNCHANGED <<company, month, uploaded_tb, df_input, staff_name, text, tb_data,
                   warnings, results, df_result, summary_shown, styled_rows,
                   download_offered>>

\* df_input[df_input[eng_col].str.upper() == company.upper()]
CompanyMatches(df, co) ==
    SelectSeq(df.rows, LAMBDA r : Upper(r.eng_name) = Upper(co))

\* Read the sheet and look the staff name up.  pd.read_excel raises when the
\* file is missing.
ReadSheet ==
    /\ pc = "read_sheet"
    /\ IF ~PathExists(files, InputdataPath(month))
       THEN /\ EndRun("error_read_excel")
            /\ UNCHANGED <<df_input, staff_name>>
       ELSE LET df == files[InputdataPath(month)]
            IN  /\ df_input' = df
                /\ IF ~({"eng name", "staff name"} \subseteq df.columns)
                   THEN /\ EndRun("stop_columns")
                        /\ UNCHANGED staff_name
                   ELSE IF CompanyMatches(df, company) = <<>>
                   THEN /\ EndRun("stop_company")
                        /\ UNCHANGED staff_name
                   ELSE /\ staff_name' = Str(CompanyMatches(df, company)[1].staff_name)
                        /\ pc' = "extract"
                        /\ UNCHANGED outcome
    /\ UNCHANGED <<company, month, uploaded_tb, files, download_called, text, tb_data,
                   warnings, results, df_result, summary_shown, styled_rows,
                   download_offered>>

\* fitz.open and page.get_text: the text of the PDF, or an exception
ExtractText ==
    /\ pc = "extract"
    /\ \/ \E lines \in Texts :
            /\ text' = Str(lines)
            /\ pc' = "parse"
            /\ UNCHANGED outcome
       \/ /\ EndRun("error_extract")
          /\ UNCHANGED text
    /\ UNCHANGED <<company, month, uploaded_tb, files, download_called, df_input,
                   staff_name, tb_data, warnings, results, df_result, summary_shown,
                   styled_rows, download_offered>>

\* a variant of NoTbData that lets an empty record list through
NoTbDataNever(records) == FALSE

\* if not tb_data
NoTbData(records) == records = <<>>

\* The extraction loop, and the stop when it found nothing
ParseTB ==
    /\ pc = "parse"
    /\ LET parsed == ExtractTB(text.s)
       IN  /\ tb_data' = parsed.records
           /\ warnings' = parsed.warnings
           /\ IF NoTbData(parsed.records)
              THEN EndRun("stop_no_tb_lines")
              ELSE pc' = "reconcile" /\ UNCHANGED outcome
    /\ UNCHANGED <<company, month, uploaded_tb, files, download_called, df_input,
                   staff_name, text, results, df_result, summary_shown, styled_rows,
                   download_offered>>

\* Compare TB vs actual, build results
Reconcile ==
    /\ pc = "reconcile"
    /\ results' = BuildResults(tb_data, staff_name, company, month)
    /\ pc' = "format"
    /\ UNCHANGED <<outcome, company, month, uploaded_tb, files, download_called,
                   df_input, staff_name, text, tb_data, warnings, df_result,
                   summary_shown, styled_rows, download_offered>>

\* df_result, its formatted amount column, and the summary on the page
FormatSummary ==
    /\ pc = "format"
    /\ df_result' = FormatResult(DataFrame(results))
    /\ summary_shown' = TRUE
    /\ pc' = "export"
    /\ UNCHANGED <<outcome, company, month, uploaded_tb, files, download_called,
                   df_input, staff_name, text, tb_data, warnings, results, styled_rows,
                   download_offered>>

\* Export to Excel with formatting, then provide the download button.  An
\* exception in the data-row loop ends the run before the button.
Export ==
    /\ pc = "export"
    /\ styled_rows' = RowsStyled(df_result, 1)
    /\ IF styled_rows' = Len(df_result)
       THEN /\ download_offered' = TRUE
            /\ EndRun("done")
       ELSE /\ EndRun("error_export")
            /\ UNCHANGED download_offered
    /\ UNCHANGED <<company, month, uploaded_tb, files, download_called, df_input,
                   staff_name, text, tb_data, warnings, results, df_result,
                   summary_shown>>

Next ==
    \/ \E co \in Companies, mo \in Months \cup {""}, up \in BOOLEAN : Submit(co, mo, up)
    \/ CheckCache
    \/ ReadSheet
    \/ ExtractText
    \/ ParseTB
    \/ Reconcile
    \/ FormatSummary
    \/ Export

Spec == Init /\ [][Next]_vars

(***************************************************************************)
(* What the properties below are stated with: the ledger-line grammar and  *)
(* the decimal reading of a line, taken from whitespace-separated tokens   *)
(* and integer hundredths, independently of the pattern and of floats.     *)
(***************************************************************************)
RECURSIVE SkipToken(_, _)
SkipToken(line, p) ==
    IF p <= Len(line) /\ ~IsSpace(line[p]) THEN SkipToken(line, p + 1) ELSE p

RECURSIVE TokensFrom(_, _)
TokensFrom(line, p) ==
    IF SkipSpaces(line, p) > Len(line) THEN <<>>
    ELSE <<SubSeq(line, SkipSpaces(line, p), SkipToken(line, SkipSpaces(line, p)) - 1)>>
         \o TokensFrom(line, SkipToken(line, SkipSpaces(line, p)))

Tokens(line) == TokensFrom(line, 1)

\* NNNN<sep>NN
IsCodeToken(tok, sep) ==
    /\ Len(tok) = 7
    /\ \A i \in {1, 2, 3, 4, 6, 7} : IsDigit(tok[i])
    /\ tok[5] = sep

\* digits{,digits}*.dd
IsAmountToken(tok) ==
    /\ Len(tok) >= 4
    /\ tok[Len(tok) - 2] = "."
    /\ IsDigit(tok[Len(tok) - 1]) /\ IsDigit(tok[Len(tok)])
    /\ IsDigit(tok[1]) /\ IsDigit(tok[Len(tok) - 3])
    /\ \A i \in 1..(Len(tok) - 3) : IsNumChar(tok[i])
    /\ \A i \in 1..(Len(tok) - 4) : ~(tok[i] = "," /\ tok[i + 1] = ",")

RECURSIVE HundredthsFrom(_, _)
HundredthsFrom(tok, acc) ==
    IF tok = <<>> THEN acc
    ELSE IF IsDigit(tok[1]) THEN HundredthsFrom(Tail(tok), 10 * acc + DigitVal(tok[1]))
    ELSE HundredthsFrom(Tail(tok), acc)

\* an amount token in hundredths
Hundredths(tok) == HundredthsFrom(tok, 0)

\* a code, a label of one or more words, exactly six amounts
IsGrammarLine(tk, sep) ==
    /\ Len(tk) >= 8
    /\ IsCodeToken(tk[1], sep)
    /\ \A i \in (Len(tk) - 5)..Len(tk) : IsAmountToken(tk[i])
    /\ \A i \in 2..(Len(tk) - 6) : ~IsAmountToken(tk[i])

BalanceDebit(tk) == Hundredths(tk[Len(tk) - 1])
BalanceCredit(tk) == Hundredths(tk[Len(tk)])

\* the amount the grammar gives a line, as the float of its numeral
AmountOfTokens(tk) ==
    IF BalanceDebit(tk) > 0 THEN FloatLiteral(BalanceDebit(tk))
    ELSE FloatNeg(FloatLiteral(BalanceCredit(tk)))

\* the same amount in hundredths, without its sign
AbsHundredthsOfTokens(tk) ==
    IF BalanceDebit(tk) > 0 THEN BalanceDebit(tk) ELSE BalanceCredit(tk)

\* the code with the separator normalised
NormalCode(tok) == [tok EXCEPT ![5] = "-"]

Parsed == text # None /\ pc # "parse"
Reconciled == results # <<>>
Formatted == df_result # <<>>
RunEnded == pc = "idle" /\ outcome \notin {"none", "no_input"}

HasRecord(code) == \E j \in 1..Len(tb_data) : tb_data[j].Code = code
FirstRecord(code) ==
    CHOOSE j \in 1..Len(tb_data) :
        tb_data[j].Code = code /\ \A h \in 1..(j - 1) : tb_data[h].Code # code

\* the entries of the reference table with an expected amount, in hundredths
ExpectedHundredths(name) ==
    CASE name = "Bank1 amt" -> 533152094
      [] name = "PND1 amt"  -> 100000
      [] name = "PND3 amt"  -> 16500
      [] name = "PND53 amt" -> 54000
      [] name = "PP30 amt"  -> 4414507
      [] OTHER              -> -1

\* the grammar's reading of the candidate lines
TokensOf == [l \in Lines |-> Tokens(l)]
IsLedgerLine == [l \in Lines |-> IsGrammarLine(TokensOf[l], "-")]
IsStarLine == [l \in Lines |-> IsGrammarLine(TokensOf[l], "*")]
CodeOf == [l \in Lines |-> NormalCode(TokensOf[l][1])]
AmountOf == [l \in Lines |->
                IF IsLedgerLine[l] \/ IsStarLine[l] THEN AmountOfTokens(TokensOf[l]) ELSE None]
AbsHundredthsOf == [l \in Lines |->
                       IF IsLedgerLine[l] THEN AbsHundredthsOfTokens(TokensOf[l]) ELSE -1]

\* the lines of the text that follow the grammar with the - separator
LedgerLines == SelectSeq(text.s, LAMBDA l : IsLedgerLine[l])

(***************************************************************************)
(* The claims.                                                             *)
(***************************************************************************)

\* C1: once a run has reconciled, the result set holds exactly one row per
\* reference-table entry, 13 rows, row i carrying the name and the ledger
\* code of the i-th entry in declaration order, whether or not a ledger
\* record has that code; and a run past reconciliation has reconciled.
C1_OneRowPerEntry ==
    /\ (pc \in {"format", "export"} \/ outcome \in {"done", "error_export"}) => Reconciled
    /\ Reconciled =>
        /\ Len(results) = 13
        /\ Len(tb_code_map) = 13
        /\ \A i \in 1..13 :
            /\ results[i].Name = tb_code_map[i].name
            /\ results[i].TB_Code = tb_code_map[i].code
        /\ results[1].Name = "Bank1 amt" /\ results[13].Name = "SSO amt"

\* C1 witness: a reconciled run in which some entry has a ledger record and
\* some entry has none
C1_Witness ==
    /\ Reconciled
    /\ \E i \in 1..Len(results) : HasRecord(results[i].TB_Code)
    /\ \E i \in 1..Len(results) : ~HasRecord(results[i].TB_Code)

\* C2: for every row with both amounts present the verdict is Match iff the
\* absolute difference of the absolute decimal amounts is strictly below 0.01
\* (below one hundredth, that is, equal hundredths) and Mismatch otherwise;
\* a difference of exactly 0.01 gives Mismatch.
C2_MatchIffWithinTolerance ==
    (Reconciled /\ Len(LedgerLines) = Len(tb_data)) =>
        \A i \in 1..Len(results) :
            (HasRecord(results[i].TB_Code) /\ ExpectedHundredths(results[i].Name) >= 0) =>
                LET ledger   == AbsHundredthsOf[LedgerLines[FirstRecord(results[i].TB_Code)]]
                    expected == ExpectedHundredths(results[i].Name)
                    diff     == IF ledger >= expected THEN ledger - expected
                                ELSE expected - ledger
                IN  /\ results[i].Results \in {"Match> Correct", "Mismatch Wrong"}
                    /\ results[i].Results = "Match> Correct" <=> diff < 1

\* C3: a row's verdict is the empty string iff no parsed record has the
\* entry's code or the table gives the entry no expected amount; otherwise it
\* is one of the two verdict texts.
C3_IndeterminateIffAbsent ==
    \A i \in 1..Len(results) :
        /\ results[i].Results \in {"", "Match> Correct", "Mismatch Wrong"}
        /\ results[i].Results = "" <=>
              (~HasRecord(results[i].TB_Code) \/ ExpectedHundredths(results[i].Name) < 0)
        /\ IsNone(results[i].TB_amount) <=> ~HasRecord(results[i].TB_Code)
        /\ IsNone(results[i].PDF_actual_amount) <=> ExpectedHundredths(results[i].Name) < 0

\* C3 witness: a reconciled run with a row whose ledger amount is present and
\* whose expected amount is absent, a row with neither, and a row with both
C3_Witness ==
    /\ Reconciled
    /\ \E i \in 1..Len(results) :
          HasRecord(results[i].TB_Code) /\ ExpectedHundredths(results[i].Name) < 0
    /\ \E i \in 1..Len(results) :
          ~HasRecord(results[i].TB_Code) /\ ExpectedHundredths(results[i].Name) >= 0
    /\ \E i \in 1..Len(results) : results[i].Results # ""

\* C4: the records keep the order of the lines in the text, and a row's
\* ledger amount is the amount of the first record with the entry's code;
\* PND3 amt and PND53 amt (rows 10 and 11, both 2132-02) carry the same
\* ledger amount and keep their own names and expected amounts.
C4_FirstRecordWins ==
    /\ (Parsed /\ Len(LedgerLines) = Len(tb_data)) =>
          \A j \in 1..Len(tb_data) : tb_data[j].Code = CodeOf[LedgerLines[j]]
    /\ \A i \in 1..Len(results) :
          HasRecord(results[i].TB_Code) =>
              results[i].TB_amount = tb_data[FirstRecord(results[i].TB_Code)].Amount
    /\ Reconciled =>
          /\ results[10].TB_amount = results[11].TB_amount
          /\ results[10].Name = "PND3 amt" /\ results[11].Name = "PND53 amt"
          /\ results[10].PDF_actual_amount = FloatLiteral(16500)
          /\ results[11].PDF_actual_amount = FloatLiteral(54000)

\* C4 witness: a reconciled run whose text has two records of code 2132-02
\* with different amounts
C4_Witness ==
    /\ Reconciled
    /\ \E j, h \in 1..Len(tb_data) :
          /\ j < h
          /\ tb_data[j].Code = results[10].TB_Code
          /\ tb_data[h].Code = results[10].TB_Code
          /\ tb_data[j].Amount # tb_data[h].Amount

C6_StarSeparatorAccepted ==
    Parsed =>
        \A i \in 1..Len(text.s) :
            IsStarLine[text.s[i]] =>
                \E j \in 1..Len(tb_data) :
                    /\ tb_data[j].Code = CodeOf[text.s[i]]
                    /\ tb_data[j].Amount = AmountOf[text.s[i]]

\* what a run has computed or put on the page as its report
NothingReported ==
    /\ results = <<>>
    /\ df_result = <<>>
    /\ ~summary_shown
    /\ styled_rows = 0
    /\ ~download_offered

\* the fatal conditions, read from the data of the run
DownloadFailed == download_called /\ pc # "check_cache"
                  /\ files[InputdataPath(month)] = Absent
ColumnsMissing == df_input # None /\ ~({"eng name", "staff name"} \subseteq df_input.columns)
CompanyMissing ==
    /\ df_input # None
    /\ \A i \in 1..Len(df_input.rows) : Upper(df_input.rows[i].eng_name) # Upper(company)
ExtractionFailed == outcome = "error_extract"
NoLedgerRecords == Parsed /\ tb_data = <<>>

FatalCondition ==
    DownloadFailed \/ ColumnsMissing \/ CompanyMissing \/ ExtractionFailed \/ NoLedgerRecords

\* C7: in a run in which a fatal condition has occurred (the download failed,
\* a column is missing, no row matches the company, the extraction failed, or
\* no ledger record was parsed) the run has stopped (or, after a download
\* that left no file, is about to fail reading it), no reconciliation row
\* is computed and no report is rendered or offered for download; zero
\* parsed records never give a report.
C7_FatalStopsRun ==
    FatalCondition =>
        /\ pc = "idle" \/ (pc = "read_sheet" /\ DownloadFailed)
        /\ pc = "idle" => outcome \in {"stop_download", "error_read_excel", "stop_columns",
                                       "stop_company", "error_extract", "stop_no_tb_lines"}
        /\ NothingReported

\* C7 witness: a run stopped because a text with lines in it gave no ledger
\* record
C7_Witness ==
    /\ NoLedgerRecords
    /\ text.s # <<>>
    /\ outcome = "stop_no_tb_lines"

\* C8: a run in which no fatal condition occurs completes the report: once
\* it has ended, all workbook rows are written and the download is offered.
C8_ReportCompleted ==
    (RunEnded /\ ~FatalCondition) =>
        /\ outcome = "done"
        /\ styled_rows = Len(tb_code_map)
        /\ download_offered

\* the text of a formatted amount without its sign
Unsigned(cell) == IF cell # <<>> /\ cell[1] = "-" THEN Tail(cell) ELSE cell

\* d{1,3}(,ddd)*.dd without a leading zero, but for 0.dd
IsGroupedAmount(body) ==
    /\ Len(body) >= 4
    /\ body[Len(body) - 2] = "."
    /\ IsDigit(body[Len(body) - 1]) /\ IsDigit(body[Len(body)])
    /\ \A i \in 1..(Len(body) - 3) :
          IF (Len(body) - 3 - i + 1) % 4 = 0 THEN body[i] = "," ELSE IsDigit(body[i])
    /\ (body[1] = "0" => Len(body) = 4)

\* C9: the ledger-amount cell of every presentation row is a string: the
\* empty string when the row's ledger amount is absent, and otherwise the
\* thousands-separated two-decimal numeral (with its sign) that reads back
\* as the amount; it is never the text None, NaN or nan.
C9_AmountCellText ==
    Formatted =>
        /\ Len(df_result) = Len(results)
        /\ \A i \in 1..Len(df_result) :
              LET cell == df_result[i].TB_amount
                  amt  == results[i].TB_amount
              IN  /\ cell.t = "str"
                  /\ cell.s \notin {<<"N", "o", "n", "e">>, <<"N", "a", "N">>, <<"n", "a", "n">>}
                  /\ IsNone(amt) => cell.s = <<>>
                  /\ ~IsNone(amt) =>
                        /\ IsGroupedAmount(Unsigned(cell.s))
                        /\ (cell.s[1] = "-") <=> amt.neg
                        /\ FloatAbs(amt) = PyFloat(Replace(Unsigned(cell.s), ","))

\* C9 witness: a formatted run with an absent ledger amount, a present one of
\* a million or more and a negative one
C9_Witness ==
    /\ Formatted
    /\ \E i \in 1..Len(df_result) : IsNone(results[i].TB_amount)
    /\ \E i \in 1..Len(df_result) : Len(df_result[i].TB_amount.s) >= 12
    /\ \E i \in 1..Len(df_result) :
          df_result[i].TB_amount.s # <<>> /\ df_result[i].TB_amount.s[1] = "-"

\* C10: a run calls the download iff the file of its month is absent when
\* it checks, and only then; a file that exists is never changed, the file of
\* another month is never changed, and the sheet a run reads is the file of
\* its month.
C10_CacheByMonth ==
    [][ /\ pc = "check_cache" =>
              (download_called' <=> files[InputdataPath(month)] = Absent)
        /\ (download_called' /\ ~download_called) => pc = "check_cache"
        /\ \A mo \in Months :
              /\ files[InputdataPath(mo)] # Absent =>
                    files'[InputdataPath(mo)] = files[InputdataPath(mo)]
              /\ mo # month => files'[InputdataPath(mo)] = files[InputdataPath(mo)]
        /\ df_input' # df_input =>
              (df_input' = None \/ df_input' = files[InputdataPath(month)])
      ]_vars

\* C10 witness: a run of another company reads the sheet of its month from
\* the file an earlier run downloaded, while the other month has a file too
C10_Witness ==
    /\ pc = "read_sheet"
    /\ ~download_called
    /\ company = Acme
    /\ \A mo \in Months : files[InputdataPath(mo)] # Absent
    /\ \E mo \in Months : files[InputdataPath(mo)] # files[InputdataPath(month)]

====
